---- MODULE Spec2Model ----
(***************************************************************************)
(* Model of webapp/primer_designer.py: process_csv, generate_primers and   *)
(* tm_calc.  A table (DataFrame) is a sequence of rows; a string is a      *)
(* sequence of one-character strings.  Floating point quantities are kept  *)
(* as exact integers or rationals:                                         *)
(*   gc_percentage   in hundredths of a percent (the code rounds to 2      *)
(*                   decimals),                                            *)
(*   melt_temperature in hundredths of a degree (floor),                   *)
(*   a normalized score as a fraction [n, d] whose denominator d is the    *)
(*   divisor the code divides by (d = 0 is the NaN of a 0/0 division).     *)
(***************************************************************************)
EXTENDS Integers, Sequences, FiniteSets, TLC

(* ------------------------------ bounds --------------------------------- *)
MaxSeqLen == 53
MaxRows == 2

(* --------------------------- string helpers ---------------------------- *)
Min(a, b) == IF a < b THEN a ELSE b
Max(a, b) == IF a > b THEN a ELSE b
Abs(x) == IF x < 0 THEN -x ELSE x

RECURSIVE Flatten(_)
Flatten(ss) == IF ss = <<>> THEN <<>> ELSE Head(ss) \o Flatten(Tail(ss))

\* str.upper on the characters the inputs use
UpperChar(c) ==
    CASE c = "a" -> "A" [] c = "c" -> "C" [] c = "g" -> "G" [] c = "t" -> "T"
      [] c = "n" -> "N" [] OTHER -> c

\* str.lower on the characters the headers and the file extensions use
LowerChar(c) ==
    CASE c = "A" -> "a" [] c = "N" -> "n" [] c = "S" -> "s" [] c = "E" -> "e"
      [] c = "Q" -> "q" [] c = "C" -> "c" [] c = "V" -> "v" [] OTHER -> c

StrUpper(s) == [i \in DOMAIN s |-> UpperChar(s[i])]
StrLower(s) == [i \in DOMAIN s |-> LowerChar(s[i])]

Whitespace == {" ", "\n", "\r", "\t"}

RECURSIVE LStrip(_)
LStrip(s) == IF s # <<>> /\ Head(s) \in Whitespace THEN LStrip(Tail(s)) ELSE s

RECURSIVE RStrip(_)
RStrip(s) ==
    IF s # <<>> /\ s[Len(s)] \in Whitespace
    THEN RStrip(SubSeq(s, 1, Len(s) - 1)) ELSE s

StrStrip(s) == RStrip(LStrip(s))

\* str.replace(ch, "")
StrRemove(s, ch) == SelectSeq(s, LAMBDA c : c # ch)

\* code point order of the characters that occur in primer names
CharOrder == <<" ", "a", "b", "d", "e", "f", "o", "r", "s", "v", "w">>
Ord(c) == CHOOSE i \in DOMAIN CharOrder : CharOrder[i] = c

RECURSIVE StrLess(_, _)
\* Python's < on str: lexicographic by code point, a proper prefix is smaller
StrLess(s, t) ==
    IF t = <<>> THEN FALSE
    ELSE IF s = <<>> THEN TRUE
    ELSE IF Head(s) # Head(t) THEN Ord(Head(s)) < Ord(Head(t))
    ELSE StrLess(Tail(s), Tail(t))

(* ------------------------ thermodynamic table -------------------------- *)
\* energies, in tenths: H (kcal/mol), S (cal/K/mol), G (kcal/mol)
energies ==
    [p \in {<<"A","A">>, <<"A","T">>, <<"A","G">>, <<"A","C">>,
            <<"T","T">>, <<"T","A">>, <<"T","G">>, <<"T","C">>,
            <<"G","G">>, <<"G","C">>, <<"G","A">>, <<"G","T">>,
            <<"C","C">>, <<"C","G">>, <<"C","A">>, <<"C","T">>} |->
       CASE p = <<"A","A">> -> [H |-> 91,  S |-> 240, G |-> 19]
         [] p = <<"A","T">> -> [H |-> 86,  S |-> 239, G |-> 15]
         [] p = <<"A","G">> -> [H |-> 78,  S |-> 208, G |-> 16]
         [] p = <<"A","C">> -> [H |-> 65,  S |-> 173, G |-> 13]
         [] p = <<"T","T">> -> [H |-> 91,  S |-> 240, G |-> 19]
         [] p = <<"T","A">> -> [H |-> 60,  S |-> 169, G |-> 9]
         [] p = <<"T","G">> -> [H |-> 58,  S |-> 129, G |-> 19]
         [] p = <<"T","C">> -> [H |-> 56,  S |-> 135, G |-> 16]
         [] p = <<"G","G">> -> [H |-> 110, S |-> 266, G |-> 31]
         [] p = <<"G","C">> -> [H |-> 111, S |-> 267, G |-> 31]
         [] p = <<"G","A">> -> [H |-> 56,  S |-> 135, G |-> 16]
         [] p = <<"G","T">> -> [H |-> 65,  S |-> 173, G |-> 13]
         [] p = <<"C","C">> -> [H |-> 110, S |-> 266, G |-> 31]
         [] p = <<"C","G">> -> [H |-> 119, S |-> 278, G |-> 36]
         [] p = <<"C","A">> -> [H |-> 58,  S |-> 129, G |-> 19]
         [] p = <<"C","T">> -> [H |-> 78,  S |-> 208, G |-> 16]]

(* --------------------------- tm_calc ----------------------------------- *)
\* the dinucleotides tm_calc looks up: seq[i : i + 2] for i + 2 <= len(seq)
PairsOf(seq) == [i \in 1..(Len(seq) - 1) |-> <<seq[i], seq[i + 1]>>]

\* energies.loc[pair, ...] raises KeyError for a pair that is not in the index
TmLookupOk(seq) == \A i \in 1..(Len(seq) - 1) : PairsOf(seq)[i] \in DOMAIN energies

RECURSIVE SumField(_, _)
SumField(pairs, f) ==
    IF pairs = <<>> THEN 0
    ELSE energies[Head(pairs)][f] + SumField(Tail(pairs), f)

\* numerator = h_tot - 3.4, with h_tot in tenths
TmNumeratorOffset == 34
\* 10000 * 0.0019872 * ln(1 / 0.25e-7) = 347.847238..., times TmScale
TmScale == 500
TmDenominatorOffset == 173924
\* 16.6 * log10(0.05) - 272.15 = -293.7471 degrees, in hundredths
TmAdditive == 29375

\* melting temperature in hundredths of a degree (floor):
\*   t = (h_tot - 3.4) / (s_tot / 1000 + R ln(..)) + 16.6 log10(0.05) - 272.15
tm_calc(seq) ==
    LET pairs == PairsOf(seq)
        h10 == SumField(pairs, "H")
        s10 == SumField(pairs, "S")
        g10 == SumField(pairs, "G")
        num == (h10 - TmNumeratorOffset) * 1000 * TmScale
        den == s10 * TmScale + TmDenominatorOffset
        q == num \div den
        r == num % den
    IN 100 * q + ((100 * r) \div den) - TmAdditive

(* ------------------------ candidate generation ------------------------- *)
\* range(19, 27)
MinPrimerLen == 19
MaxPrimerLen == 26
PrimerLengths == [k \in 1..(MaxPrimerLen - MinPrimerLen + 1) |-> MinPrimerLen + k - 1]

\* Python s[:i] for i > 0
PyPrefix(s, i) == SubSeq(s, 1, Min(i, Len(s)))
\* s[len(s) - i:], which wraps around when i > len(s)
PySuffixWrapped(s, i) ==
    IF i > Len(s) THEN SubSeq(s, Max(2 * Len(s) - i, 0) + 1, Len(s))
    ELSE SubSeq(s, Len(s) - i + 1, Len(s))
\* Python s[-i:] for i > 0
PySuffix(s, i) == SubSeq(s, Max(Len(s) - i, 0) + 1, Len(s))

\* Bio.Seq complement table restricted to the characters of the inputs
Complement(c) ==
    CASE c = "A" -> "T" [] c = "T" -> "A" [] c = "G" -> "C" [] c = "C" -> "G"
      [] OTHER -> c

Reverse(s) == [i \in DOMAIN s |-> s[Len(s) - i + 1]]
reverse_complement(s) == Reverse([i \in DOMAIN s |-> Complement(s[i])])

ForwardSuffix == <<" ", "f", "o", "r", "w", "a", "r", "d">>
ReverseSuffix == <<" ", "r", "e", "v", "e", "r", "s", "e">>

\* column labels
ColName == <<"a", "m", "p", "l", "i", "c", "o", "n", " ", "n", "a", "m", "e">>
ColSequence == <<"s", "e", "q", "u", "e", "n", "c", "e">>

HasColumn(df, label) == \E i \in DOMAIN df.columns : df.columns[i] = label
ColumnIndex(df, label) == CHOOSE i \in DOMAIN df.columns : df.columns[i] = label
\* row[label]
Cell(df, r, label) == df.data[r][ColumnIndex(df, label)]

\* lines 143-182: the forward and the reverse options of input row r
forward_options(df, r) ==
    [k \in DOMAIN PrimerLengths |->
        [amplicon_name |-> Cell(df, r, ColName),
         primer_name |-> Cell(df, r, ColName) \o ForwardSuffix,
         direction |-> "forward",
         option_group_index |-> k,
         primer_sequence |-> PyPrefix(Cell(df, r, ColSequence), PrimerLengths[k])]]

reverse_options(df, r) ==
    [k \in DOMAIN PrimerLengths |->
        [amplicon_name |-> Cell(df, r, ColName),
         primer_name |-> Cell(df, r, ColName) \o ReverseSuffix,
         direction |-> "reverse",
         option_group_index |-> k,
         primer_sequence |->
             reverse_complement(PySuffix(Cell(df, r, ColSequence), PrimerLengths[k]))]]

options_tuples_list(df) ==
    Flatten([r \in DOMAIN df.data |-> forward_options(df, r) \o reverse_options(df, r)])

(* ------------------------------ scoring -------------------------------- *)
CountOf(s, chars) == Cardinality({i \in DOMAIN s : s[i] \in chars})

\* lines 199-202
gc_clamp(seq) == IF seq # <<>> /\ seq[Len(seq)] \in {"G", "C"} THEN 1 ELSE 0

\* line 209: round((nG + nC) / float(length) * 100, 2), in hundredths of a percent
gc_percentage(seq) ==
    (2 * 10000 * CountOf(seq, {"G", "C"}) + Len(seq)) \div (2 * Len(seq))

\* the targets of lines 217-218, in hundredths
MeltTempTarget == 6200
GcPercentageTarget == 5000

\* the exception raised while scoring one candidate row, "none" when there is none
RowScoreError(row) ==
    IF Len(row.primer_sequence) = 0 THEN "ZeroDivisionError"
    ELSE IF ~TmLookupOk(row.primer_sequence) THEN "KeyError"
    ELSE "none"

\* lines 196-220: one candidate row with its raw scores
ScoredRow(row) ==
    LET seq == row.primer_sequence
        gc == gc_percentage(seq)
        tm == tm_calc(seq)
    IN row @@ [gc_clamp |-> gc_clamp(seq),
               length |-> Len(seq),
               gc_percentage |-> gc,
               melt_temperature |-> tm,
               melt_temp_target_distance |-> Abs(MeltTempTarget - tm),
               gc_percentage_target_distance |-> Abs(GcPercentageTarget - gc)]

\* the first exception of the scoring loop over the candidate table
ScoreError(options) ==
    IF \A i \in DOMAIN options : RowScoreError(options[i]) = "none" THEN "none"
    ELSE LET first == CHOOSE i \in DOMAIN options :
                         /\ RowScoreError(options[i]) # "none"
                         /\ \A j \in 1..(i - 1) : RowScoreError(options[j]) = "none"
         IN RowScoreError(options[first])

raw_score_rows(options) == [i \in DOMAIN options |-> ScoredRow(options[i])]

(* ------------------------------ grouping ------------------------------- *)
RECURSIVE SortedKeys(_)
\* the keys of a groupby, in the ascending order in which it iterates them
SortedKeys(keys) ==
    IF keys = {} THEN <<>>
    ELSE LET least == CHOOSE k \in keys : \A o \in keys \ {k} : StrLess(k, o)
         IN <<least>> \o SortedKeys(keys \ {least})

RECURSIVE FirstSeenKeys(_)
\* groupby(sort=False): the keys in the order of their first row
FirstSeenKeys(rows) ==
    IF rows = <<>> THEN <<>>
    ELSE LET front == FirstSeenKeys(SubSeq(rows, 1, Len(rows) - 1))
             key == rows[Len(rows)].primer_name
         IN IF \E i \in DOMAIN front : front[i] = key THEN front ELSE Append(front, key)

GroupKeys(rows) == SortedKeys({rows[i].primer_name : i \in DOMAIN rows})

\* the rows of one group, in table order
GroupRows(rows, name) == SelectSeq(rows, LAMBDA r : r.primer_name = name)

RECURSIVE MaxOf(_)
MaxOf(S) ==
    LET x == CHOOSE y \in S : TRUE
    IN IF S = {x} THEN x ELSE Max(x, MaxOf(S \ {x}))

RECURSIVE MinOf(_)
MinOf(S) ==
    LET x == CHOOSE y \in S : TRUE
    IN IF S = {x} THEN x ELSE Min(x, MinOf(S \ {x}))

\* .min() in place of .max()
min_melt_temp_target_distance(group) ==
    MinOf({group[i].melt_temp_target_distance : i \in DOMAIN group})
max_melt_temp_target_distance(group) ==
    MaxOf({group[i].melt_temp_target_distance : i \in DOMAIN group})
max_gc_percent_target_distance(group) ==
    MaxOf({group[i].gc_percentage_target_distance : i \in DOMAIN group})

\* the first assertion alone
MeltDivisorNonZero(group) == max_melt_temp_target_distance(group) # 0

\* lines 237-240: the two assertions on the divisors
DivisorsNonZero(group) ==
    /\ max_melt_temp_target_distance(group) # 0
    /\ max_gc_percent_target_distance(group) # 0

\* lines 242-258: one row of a group with its normalized scores
TotalScoredRow(row, maxMelt, maxGc) ==
    row @@ [melt_temperature_score |->
                [n |-> maxMelt - row.melt_temp_target_distance, d |-> maxMelt],
            gc_percentage_score |->
                [n |-> maxGc - row.gc_percentage_target_distance, d |-> maxGc],
            total_score |->
                [n |-> row.gc_clamp * maxMelt * maxGc
                       + 2 * (maxMelt - row.melt_temp_target_distance) * maxGc
                       + (maxGc - row.gc_percentage_target_distance) * maxMelt,
                 d |-> maxMelt * maxGc]]

TotalScoredGroup(group) ==
    [i \in DOMAIN group |->
        TotalScoredRow(group[i], max_melt_temp_target_distance(group),
                       max_gc_percent_target_distance(group))]

\* lines 228-258 fail at the first group, in groupby order, whose assertion fails
NormalizeError(rows) ==
    IF \A i \in DOMAIN GroupKeys(rows) :
           DivisorsNonZero(GroupRows(rows, GroupKeys(rows)[i]))
    THEN "none" ELSE "AssertionError"

total_score_rows(rows) ==
    Flatten([g \in DOMAIN GroupKeys(rows) |->
                TotalScoredGroup(GroupRows(rows, GroupKeys(rows)[g]))])

(* ------------------------------ ranking -------------------------------- *)
\* sort_values(ascending=True)
ScoreSmaller(a, b) == a.n < b.n
\* order of two total scores of one group (same denominator)
ScoreGreater(a, b) == a.n > b.n

RECURSIVE InsertDesc(_, _)
InsertDesc(sorted, v) ==
    IF sorted = <<>> THEN <<v>>
    ELSE IF ScoreGreater(v, Head(sorted)) THEN <<v>> \o sorted
    ELSE <<Head(sorted)>> \o InsertDesc(Tail(sorted), v)

RECURSIVE SortDesc(_)
\* Series.sort_values(ascending=False, ignore_index=True)
SortDesc(vals) ==
    IF vals = <<>> THEN <<>>
    ELSE InsertDesc(SortDesc(SubSeq(vals, 1, Len(vals) - 1)), vals[Len(vals)])

\* lines 267-275: the frame of (option_group_rank, total_score)
total_score_rank_df(group) ==
    LET sorted == SortDesc([i \in DOMAIN group |-> group[i].total_score])
    IN [i \in DOMAIN sorted |-> [option_group_rank |-> i, total_score |-> sorted[i]]]

\* lines 276-278: inner merge on total_score, in the order of the left rows
MergeOnTotalScore(group, ranks) ==
    Flatten([i \in DOMAIN group |->
        LET matches == SelectSeq(ranks, LAMBDA rk : rk.total_score = group[i].total_score)
        IN [j \in DOMAIN matches |->
               group[i] @@ [option_group_rank |-> matches[j].option_group_rank]]])

\* lines 263-282
ranked_rows(rows) ==
    Flatten([g \in DOMAIN GroupKeys(rows) |->
        LET group == GroupRows(rows, GroupKeys(rows)[g])
        IN MergeOnTotalScore(group, total_score_rank_df(group))])

(* --------------------------- result selection -------------------------- *)
\* lines 285-288
rank_one_rows(rows) == SelectSeq(rows, LAMBDA r : r.option_group_rank = 1)

RECURSIVE InsertByIndex(_, _)
InsertByIndex(sorted, e) ==
    IF sorted = <<>> THEN <<e>>
    ELSE IF e.index < Head(sorted).index THEN <<e>> \o sorted
    ELSE <<Head(sorted)>> \o InsertByIndex(Tail(sorted), e)

RECURSIVE SortIndex(_)
\* DataFrame.sort_index()
SortIndex(frame) ==
    IF frame = <<>> THEN <<>>
    ELSE InsertByIndex(SortIndex(SubSeq(frame, 1, Len(frame) - 1)), frame[Len(frame)])

\* pd.concat([forward_results, reverse_results]) without .sort_index()
with_overhangs_unsorted(rows, upstream, downstream) ==
    LET forward_results == SelectSeq(rows, LAMBDA r : r.direction = "forward")
        reverse_results == SelectSeq(rows, LAMBDA r : r.direction = "reverse")
    IN [i \in DOMAIN forward_results |->
           [forward_results[i] EXCEPT !.primer_sequence = upstream \o @]]
       \o [i \in DOMAIN reverse_results |->
           [reverse_results[i] EXCEPT !.primer_sequence = downstream \o @]]
\* lines 291-307: rows carry the index that reset_index gave them
with_overhangs(rows, upstream, downstream) ==
    LET indexed == [i \in DOMAIN rows |-> [index |-> i - 1, row |-> rows[i]]]
        forward_results == SelectSeq(indexed, LAMBDA e : e.row.direction = "forward")
        reverse_results == SelectSeq(indexed, LAMBDA e : e.row.direction = "reverse")
        fwd == [i \in DOMAIN forward_results |->
                  [forward_results[i] EXCEPT
                      !.row.primer_sequence = upstream \o @]]
        rev == [i \in DOMAIN reverse_results |->
                  [reverse_results[i] EXCEPT
                      !.row.primer_sequence = downstream \o @]]
        sorted == SortIndex(fwd \o rev)
    IN [i \in DOMAIN sorted |-> sorted[i].row]

(* ------------------------------- inputs -------------------------------- *)
\* the headers of an uploaded table
HeaderExact == <<ColName, ColSequence>>
HeaderCapitalized ==
    << <<"A", "m", "p", "l", "i", "c", "o", "n", " ", "N", "a", "m", "e">>,
       <<"S", "e", "q", "u", "e", "n", "c", "e">> >>
HeaderSeq == <<ColName, <<"s", "e", "q">> >>
HeaderNoName == << <<"n", "a", "m", "e">>, ColSequence>>
Headers == {HeaderExact, HeaderCapitalized, HeaderSeq, HeaderNoName}

Names == {<<"a">>, <<"b">>}

\* motifs the amplicon sequences are built from by repetition
Seeds == {<<"A", "T", "G", "C">>,
          <<"G", "C">>,
          <<"A">>,
          <<"A", "C">>,
          <<"G", "A", "T", "T", "A", "C", "A", "G", "C", "T", "C">>}
Cycle(seed, n) == [i \in 1..n |-> seed[((i - 1) % Len(seed)) + 1]]

\* a sequence with the character at position p replaced by one outside {A,C,G,T}
WithInvalid(s, p) == IF p \in DOMAIN s THEN [s EXCEPT ![p] = "N"] ELSE s
InvalidPositions == {0, 1, MaxPrimerLen + 1}

LongSeqs ==
    {WithInvalid(Cycle(seed, n), p) : seed \in Seeds, n \in 0..MaxSeqLen, p \in InvalidPositions}

ShortListSeqs ==
    {Cycle(<<"A", "T", "G", "C">>, 32),
     Cycle(<<"G", "A", "T", "T", "A", "C", "A", "G", "C", "T", "C">>, 26),
     Cycle(<<"G", "A", "T", "T", "A", "C", "A", "G", "C", "T", "C">>, 21)}

\* the ways a sequence is written in the uploaded file
RawForms == {"plain", "lower", "padded", "wrapped"}
LowerBase(c) ==
    CASE c = "A" -> "a" [] c = "C" -> "c" [] c = "G" -> "g" [] c = "T" -> "t"
      [] OTHER -> c
Raw(s, form) ==
    CASE form = "lower" -> [i \in DOMAIN s |-> LowerBase(s[i])]
      [] form = "padded" -> <<" ">> \o s \o <<"\r", "\n">>
      [] form = "wrapped" ->
            SubSeq(s, 1, Len(s) \div 2) \o <<"\r", "\n">>
                \o SubSeq(s, Len(s) \div 2 + 1, Len(s))
      [] OTHER -> s

NoOverhangs == [add |-> FALSE, upstream |-> <<>>, downstream |-> <<>>]
OverhangOptions ==
    {NoOverhangs,
     [add |-> TRUE, upstream |-> <<"G", "G", "G">>, downstream |-> <<"C", "C", "C">>],
     [add |-> TRUE, upstream |-> <<>>, downstream |-> <<"A", "T">>]}

Frame(header, rows) == [columns |-> header, data |-> rows]

\* tables of one row over the long list of sequences
OneRowTables == {Frame(HeaderExact, << <<(<<"a">>), s>> >>) : s \in LongSeqs}

RowChoices == {<<n, s>> : n \in Names, s \in ShortListSeqs}
\* tables of up to MaxRows rows over the short list of sequences
ManyRowTables ==
    UNION {{Frame(HeaderExact, rows) : rows \in [1..k -> RowChoices]} : k \in 1..MaxRows}

\* tables of one row, under every header and in every written form
HeaderTables ==
    {Frame(h, << <<(<<"a">>), Raw(s, f)>> >>) :
        h \in Headers, s \in ShortListSeqs, f \in RawForms}

(* ------------------------------- state --------------------------------- *)
VARIABLES
    entry,                      \* the function called: process_csv or generate_primers
    file_df,                    \* the table as read from the file
    input_df,                   \* input_df, modified in place by generate_primers
    options,                    \* add_overhangs, upstream_overhang, downstream_overhang
    pc,                         \* position in process_csv / generate_primers
    primer_options_df,
    raw_score_df,
    total_score_df,
    all_options_ranked_df,
    rank_one_df,                \* optimal_primer_results_df after line 288
    optimal_primer_results_df,  \* optimal_primer_results_df as returned
    outcome,                    \* running, returned, invalid (False, message, None), raised
    error,                      \* the exception raised
    error_message_str

\* the request and the effects of the route handler home of app.py
VARIABLES
    request,                    \* request.files["file"]: whether a file came, its filename
    response,                   \* what home returns: a rendered page, a redirect, an exception
    load_database_called,       \* load_database.load_database has been called
    zip_file_written,           \* the archive has been written to /app/data
    session                     \* the keys stored in the Flask session

app == <<request, response, load_database_called, zip_file_written, session>>

vars == <<app, entry, file_df, input_df, options, pc, primer_options_df, raw_score_df,
          total_score_df, all_options_ranked_df, rank_one_df,
          optimal_primer_results_df, outcome, error, error_message_str>>

tables == <<primer_options_df, raw_score_df, total_score_df, all_options_ranked_df,
            rank_one_df, optimal_primer_results_df>>

InitRest ==
    /\ input_df = file_df
    /\ primer_options_df = <<>>
    /\ raw_score_df = <<>>
    /\ total_score_df = <<>>
    /\ all_options_ranked_df = <<>>
    /\ rank_one_df = <<>>
    /\ optimal_primer_results_df = <<>>
    /\ outcome = "running"
    /\ error = "none"
    /\ error_message_str = <<>>
    /\ response = [kind |-> "none"]
    /\ load_database_called = FALSE
    /\ zip_file_written = FALSE
    /\ session = {}

\* the file names of the uploads
Filenames ==
    {<<"x", ".", "c", "s", "v">>,
     <<"x", ".", "C", "S", "V">>,
     <<"x", ".", "t", "x", "t">>,
     <<"x">>,
     <<"x", ".", "y", ".", "c", "s", "v">>}
NoRequest == [has_file |-> FALSE, filename |-> <<>>]
HomeRequests == {NoRequest} \cup {[has_file |-> TRUE, filename |-> f] : f \in Filenames}

\* the uploads of home: the header tables and one whose groups have a zero divisor
HomeTables ==
    HeaderTables \cup {Frame(HeaderExact, << <<(<<"a">>), Cycle(<<"A", "C">>, 18)>> >>)}

Init ==
    /\ \/ /\ entry = "generate_primers"
          /\ file_df \in OneRowTables
          /\ options \in OverhangOptions
       \/ /\ entry = "generate_primers"
          /\ file_df \in ManyRowTables
          /\ options \in OverhangOptions
       \/ /\ entry = "generate_primers"
          /\ file_df \in HeaderTables
          /\ options \in OverhangOptions
       \/ /\ entry = "process_csv"
          /\ file_df \in HeaderTables \cup ManyRowTables
          /\ options = NoOverhangs
       \/ /\ entry = "home"
          /\ file_df \in HomeTables
          /\ options = NoOverhangs
    /\ request \in (IF entry = "home" THEN HomeRequests ELSE {NoRequest})
    /\ pc = IF entry = "generate_primers" THEN "generate_primers" ELSE entry
    /\ InitRest

(* ----------------------------- process_csv ----------------------------- *)
expected_columns == {ColName, ColSequence}

\* the loop stops at the first expected column
SomeColumnExpected(df) == \E i \in DOMAIN df.columns : df.columns[i] \in expected_columns

\* lines 322-325: every column is one of the expected columns
ColumnsExpected(df) == \A i \in DOMAIN df.columns : df.columns[i] \in expected_columns

\* lines 326-330: return False, error_message_str, None
ProcessCsvReject ==
    /\ pc = "process_csv"
    /\ ~ColumnsExpected(input_df)
    /\ outcome' = "invalid"
    /\ error_message_str' = [text |-> "Exptected columns ... but ... detected",
                             expected |-> <<ColName, ColSequence>>,
                             detected |-> input_df.columns]
    /\ pc' = "done"
    /\ UNCHANGED <<app, entry, file_df, input_df, options, tables, error>>

\* line 344: generate_primers(input_df)
ProcessCsvAccept ==
    /\ pc = "process_csv"
    /\ ColumnsExpected(input_df)
    /\ pc' = "generate_primers"
    /\ UNCHANGED <<app, entry, file_df, input_df, options, tables, outcome, error,
                   error_message_str>>

(* --------------------------- generate_primers -------------------------- *)
Raise(exc) ==
    /\ outcome' = "raised"
    /\ error' = exc
    /\ pc' = "done"

\* .str.strip().str.replace("\n", "").str.replace("\r", "").str.upper()
CleanSequence(s) == StrUpper(StrRemove(StrRemove(StrStrip(s), "\n"), "\r"))

LowerColumns(df) == [df EXCEPT !.columns = [i \in DOMAIN @ |-> StrLower(@[i])]]

\* lines 127-136
CleanedFrame(df) ==
    LET lowered == LowerColumns(df)
        c == ColumnIndex(lowered, ColSequence)
    IN [lowered EXCEPT !.data = [r \in DOMAIN @ |-> [@[r] EXCEPT ![c] = CleanSequence(@)]]]

Clean ==
    /\ pc = "generate_primers"
    /\ HasColumn(LowerColumns(input_df), ColSequence)
    /\ input_df' = CleanedFrame(input_df)
    /\ pc' = "cleaned"
    /\ UNCHANGED <<app, entry, file_df, options, tables, outcome, error, error_message_str>>

\* line 131: input_df["sequence"] raises KeyError
CleanRaise ==
    /\ pc = "generate_primers"
    /\ ~HasColumn(LowerColumns(input_df), ColSequence)
    /\ input_df' = LowerColumns(input_df)
    /\ Raise("KeyError")
    /\ UNCHANGED <<app, entry, file_df, options, tables, error_message_str>>

\* lines 141-193
Generate ==
    /\ pc = "cleaned"
    /\ HasColumn(input_df, ColName)
    /\ primer_options_df' = options_tuples_list(input_df)
    /\ pc' = "generated"
    /\ UNCHANGED <<app, entry, file_df, input_df, options, raw_score_df, total_score_df,
                   all_options_ranked_df, rank_one_df, optimal_primer_results_df,
                   outcome, error, error_message_str>>

\* line 146: row['amplicon name'] raises KeyError
GenerateRaise ==
    /\ pc = "cleaned"
    /\ ~HasColumn(input_df, ColName)
    /\ Raise("KeyError")
    /\ UNCHANGED <<app, entry, file_df, input_df, options, tables, error_message_str>>

\* lines 195-222
Score ==
    /\ pc = "generated"
    /\ ScoreError(primer_options_df) = "none"
    /\ raw_score_df' = raw_score_rows(primer_options_df)
    /\ pc' = "scored"
    /\ UNCHANGED <<app, entry, file_df, input_df, options, primer_options_df, total_score_df,
                   all_options_ranked_df, rank_one_df, optimal_primer_results_df,
                   outcome, error, error_message_str>>

\* line 210 divides by a zero length, line 105 looks up an unknown pair
ScoreRaise ==
    /\ pc = "generated"
    /\ ScoreError(primer_options_df) # "none"
    /\ Raise(ScoreError(primer_options_df))
    /\ UNCHANGED <<app, entry, file_df, input_df, options, tables, error_message_str>>

\* lines 225-260
Normalize ==
    /\ pc = "scored"
    /\ NormalizeError(raw_score_df) = "none"
    /\ total_score_df' = total_score_rows(raw_score_df)
    /\ pc' = "normalized"
    /\ UNCHANGED <<app, entry, file_df, input_df, options, primer_options_df, raw_score_df,
                   all_options_ranked_df, rank_one_df, optimal_primer_results_df,
                   outcome, error, error_message_str>>

\* lines 237-240: an assertion fails
NormalizeRaise ==
    /\ pc = "scored"
    /\ NormalizeError(raw_score_df) # "none"
    /\ Raise(NormalizeError(raw_score_df))
    /\ UNCHANGED <<app, entry, file_df, input_df, options, tables, error_message_str>>

\* lines 263-288
Rank ==
    /\ pc = "normalized"
    /\ all_options_ranked_df' = ranked_rows(total_score_df)
    /\ rank_one_df' = rank_one_rows(all_options_ranked_df')
    /\ pc' = "ranked"
    /\ UNCHANGED <<app, entry, file_df, input_df, options, primer_options_df, raw_score_df,
                   total_score_df, optimal_primer_results_df, outcome, error,
                   error_message_str>>

\* lines 290-309
Return ==
    /\ pc = "ranked"
    /\ optimal_primer_results_df' =
           IF options.add
           THEN with_overhangs(rank_one_df, options.upstream, options.downstream)
           ELSE rank_one_df
    /\ outcome' = "returned"
    /\ pc' = "done"
    /\ UNCHANGED <<app, entry, file_df, input_df, options, primer_options_df, raw_score_df,
                   total_score_df, all_options_ranked_df, rank_one_df, error,
                   error_message_str>>

(* -------------------------------- home --------------------------------- *)
RECURSIVE StrSplit(_, _)
\* str.split(sep) for a separator of one character
StrSplit(s, sep) ==
    IF \A i \in DOMAIN s : s[i] # sep THEN <<s>>
    ELSE LET at == CHOOSE i \in DOMAIN s :
                       s[i] = sep /\ \A j \in 1..(i - 1) : s[j] # sep
         IN <<SubSeq(s, 1, at - 1)>> \o StrSplit(SubSeq(s, at + 1, Len(s)), sep)

ExtCsv == <<"c", "s", "v">>

Respond(r) ==
    /\ response' = r
    /\ pc' = "done"

\* lines 55 and 152 of app.py: no file came with the form
HomeNoFile ==
    /\ pc = "home"
    /\ ~request.has_file
    /\ Respond([kind |-> "render", template |-> "index.html"])
    /\ UNCHANGED <<request, load_database_called, zip_file_written, session, entry,
                   file_df, input_df, options, tables, outcome, error, error_message_str>>

\* line 58: tuple(filename.split(".")) does not unpack into two names
HomeSplitRaise ==
    /\ pc = "home"
    /\ request.has_file
    /\ Len(StrSplit(request.filename, ".")) # 2
    /\ Respond([kind |-> "exception", error |-> "ValueError"])
    /\ UNCHANGED <<request, load_database_called, zip_file_written, session, entry,
                   file_df, input_df, options, tables, outcome, error, error_message_str>>

\* lines 61-67: the extension is not csv
HomeBadExtension ==
    /\ pc = "home"
    /\ request.has_file
    /\ Len(StrSplit(request.filename, ".")) = 2
    /\ StrLower(StrSplit(request.filename, ".")[2]) # ExtCsv
    /\ Respond([kind |-> "render", template |-> "error.html",
                message |-> [text |-> "Exptected .csv file extension, but ... detected",
                             detected |-> StrSplit(request.filename, ".")[2]]])
    /\ UNCHANGED <<request, load_database_called, zip_file_written, session, entry,
                   file_df, input_df, options, tables, outcome, error, error_message_str>>

\* lines 69-82: primer_designer.process_csv(file) is called
HomeProcessCsv ==
    /\ pc = "home"
    /\ request.has_file
    /\ Len(StrSplit(request.filename, ".")) = 2
    /\ StrLower(StrSplit(request.filename, ".")[2]) = ExtCsv
    /\ pc' = "process_csv"
    /\ UNCHANGED <<app, entry, file_df, input_df, options, tables, outcome, error,
                   error_message_str>>

\* process_csv has come back to line 77 and home has not answered yet
BackInHome == entry = "home" /\ pc = "done" /\ response.kind = "none"

\* lines 77-82: the three values of line 330 do not unpack into four names
HomeUnpackRaise ==
    /\ BackInHome
    /\ outcome = "invalid"
    /\ Respond([kind |-> "exception", error |-> "ValueError"])
    /\ UNCHANGED <<request, load_database_called, zip_file_written, session, entry,
                   file_df, input_df, options, tables, outcome, error, error_message_str>>

\* line 82: an exception of generate_primers leaves home
HomePropagate ==
    /\ BackInHome
    /\ outcome = "raised"
    /\ Respond([kind |-> "exception", error |-> error])
    /\ UNCHANGED <<request, load_database_called, zip_file_written, session, entry,
                   file_df, input_df, options, tables, outcome, error, error_message_str>>

\* lines 90-99: load_database returns False and its message (load_database.py 17-26)
HomeDatabaseInvalid ==
    /\ BackInHome
    /\ outcome = "returned"
    /\ load_database_called' = TRUE
    /\ Respond([kind |-> "render", template |-> "error.html",
                message |-> [text |-> "Error in .env file configuration!"]])
    /\ UNCHANGED <<request, zip_file_written, session, entry, file_df, input_df,
                   options, tables, outcome, error, error_message_str>>

\* lines 90-95: the database connection or an insert raises (load_database.py 29-116)
HomeDatabaseRaise ==
    /\ BackInHome
    /\ outcome = "returned"
    /\ load_database_called' = TRUE
    /\ Respond([kind |-> "exception", error |-> "mysql.connector.Error"])
    /\ UNCHANGED <<request, zip_file_written, session, entry, file_df, input_df,
                   options, tables, outcome, error, error_message_str>>

\* lines 90-150: the database is loaded, the archive written, the session filled
HomeSuccess ==
    /\ BackInHome
    /\ outcome = "returned"
    /\ load_database_called' = TRUE
    /\ zip_file_written' = TRUE
    /\ session' = {"primer_results_for_display", "file_created", "file_path",
                   "result_file_name"}
    /\ Respond([kind |-> "redirect", to |-> "success"])
    /\ UNCHANGED <<request, entry, file_df, input_df, options, tables, outcome, error,
                   error_message_str>>

Next ==
    \/ HomeNoFile
    \/ HomeSplitRaise
    \/ HomeBadExtension
    \/ HomeProcessCsv
    \/ HomeUnpackRaise
    \/ HomePropagate
    \/ HomeDatabaseInvalid
    \/ HomeDatabaseRaise
    \/ HomeSuccess
    \/ ProcessCsvReject
    \/ ProcessCsvAccept
    \/ Clean
    \/ CleanRaise
    \/ Generate
    \/ GenerateRaise
    \/ Score
    \/ ScoreRaise
    \/ Normalize
    \/ NormalizeRaise
    \/ Rank
    \/ Return

Spec == Init /\ [][Next]_vars

(* ------------------------------ properties ----------------------------- *)
Bases == {"A", "C", "G", "T"}
IsDna(seq) == \A i \in DOMAIN seq : seq[i] \in Bases
\* input_df holds the cleaned sequences once line 136 has run
Cleaned ==
    /\ \/ pc \in {"cleaned", "generated", "scored", "normalized", "ranked"}
       \/ pc = "done" /\ outcome \in {"returned", "raised"}
    /\ HasColumn(input_df, ColSequence)
CleanSeqOf(r) == Cell(input_df, r, ColSequence)
WatsonCrick(c) == CASE c = "A" -> "T" [] c = "T" -> "A" [] c = "G" -> "C" [] c = "C" -> "G"

\* C1: for every amplicon over {A,C,G,T}, generation yields 8 forward then 8
\* reverse candidates with option_group_index 1..8; candidate k has
\* L = 18 + k, the forward sequence is the first L characters, the reverse
\* sequence the reverse complement of the last L characters, a prefix or
\* suffix longer than the sequence being the whole sequence; no error is raised.
C1_CandidateGeneration ==
    /\ (Cleaned /\ HasColumn(input_df, ColName) /\ pc # "cleaned")
           => Len(primer_options_df) = 16 * Len(input_df.data)
    /\ primer_options_df # <<>> =>
        \A r \in DOMAIN input_df.data :
            LET seq == CleanSeqOf(r)
                n == Len(seq)
            IN IsDna(seq) =>
                \A k \in 1..8 :
                    LET L == 18 + k
                        m == IF L > n THEN n ELSE L
                        fwd == primer_options_df[16 * (r - 1) + k]
                        rev == primer_options_df[16 * (r - 1) + 8 + k]
                    IN /\ fwd.direction = "forward" /\ rev.direction = "reverse"
                       /\ fwd.option_group_index = k /\ rev.option_group_index = k
                       /\ fwd.amplicon_name = Cell(input_df, r, ColName)
                       /\ rev.amplicon_name = Cell(input_df, r, ColName)
                       /\ Len(fwd.primer_sequence) = m
                       /\ Len(rev.primer_sequence) = m
                       /\ \A j \in 1..m :
                            /\ fwd.primer_sequence[j] = seq[j]
                            /\ rev.primer_sequence[j] = WatsonCrick(seq[n - j + 1])

\* a sequence shorter than the longest candidate has been through generation
C1_Witness ==
    /\ pc = "generated"
    /\ \E r \in DOMAIN input_df.data :
          /\ IsDna(CleanSeqOf(r))
          /\ Len(CleanSeqOf(r)) \in 20..25
          /\ Len(primer_options_df[16 * (r - 1) + 16].primer_sequence) = Len(CleanSeqOf(r))

UniqueNames ==
    \A r1, r2 \in DOMAIN input_df.data :
        Cell(input_df, r1, ColName) = Cell(input_df, r2, ColName) => r1 = r2

\* C2: with unique amplicon names and sequences over {A,C,G,T} of length >= 19,
\* the optimal table has exactly one forward and one reverse row per amplicon.
C2_OneOptimalPerDirection ==
    (/\ outcome = "returned"
     /\ UniqueNames
     /\ \A r \in DOMAIN input_df.data : IsDna(CleanSeqOf(r)) /\ Len(CleanSeqOf(r)) >= 19)
    => \A r \in DOMAIN input_df.data : \A dir \in {"forward", "reverse"} :
          Cardinality({i \in DOMAIN optimal_primer_results_df :
              /\ optimal_primer_results_df[i].amplicon_name = Cell(input_df, r, ColName)
              /\ optimal_primer_results_df[i].direction = dir}) = 1

\* the positions of the rows of a table that belong to one primer_name
GroupOf(df, name) == {i \in DOMAIN df : df[i].primer_name = name}
NoTies(df, name) ==
    \A i, j \in GroupOf(df, name) : df[i].total_score = df[j].total_score => i = j

\* C3: in a primer_name group of 8 candidates with pairwise different
\* total_score, the ranks are a permutation of 1..8 in descending order of
\* total_score: the greater score has the smaller rank, the highest has rank 1.
C3_RanksFollowScores ==
    all_options_ranked_df # <<>> =>
        \A g \in DOMAIN total_score_df :
            LET name == total_score_df[g].primer_name
                members == GroupOf(all_options_ranked_df, name)
            IN (Cardinality(GroupOf(total_score_df, name)) = 8 /\ NoTies(total_score_df, name))
               => /\ Cardinality(members) = 8
                  /\ {all_options_ranked_df[i].option_group_rank : i \in members} = 1..8
                  /\ \A i \in members :
                        \E t \in GroupOf(total_score_df, name) :
                            /\ total_score_df[t].option_group_index
                                   = all_options_ranked_df[i].option_group_index
                            /\ total_score_df[t].total_score
                                   = all_options_ranked_df[i].total_score
                  /\ \A i, j \in members :
                        LET a == all_options_ranked_df[i]
                            b == all_options_ranked_df[j]
                        IN /\ a.total_score.d = b.total_score.d
                           /\ a.total_score.n > b.total_score.n
                                  => a.option_group_rank < b.option_group_rank
                           /\ (\A o \in members :
                                  a.total_score.n >= all_options_ranked_df[o].total_score.n)
                                  => a.option_group_rank = 1

\* a group of 8 candidates without ties has been ranked
C3_Witness ==
    /\ pc = "ranked"
    /\ \E g \in DOMAIN total_score_df :
          /\ Cardinality(GroupOf(total_score_df, total_score_df[g].primer_name)) = 8
          /\ NoTies(total_score_df, total_score_df[g].primer_name)
          /\ \E i \in DOMAIN all_options_ranked_df :
                /\ all_options_ranked_df[i].primer_name = total_score_df[g].primer_name
                /\ all_options_ranked_df[i].option_group_rank = 1
                /\ all_options_ranked_df[i].option_group_index # 1

\* C4: in every group that passed the nonzero-maximum check both normalized
\* scores lie in [0,1], a candidate at the group's maximum distance on an axis
\* scores 0 on it, a candidate at the minimum distance has the group's highest
\* score on it, and total_score = gc_clamp + 2 melt + gc lies in [0,4].
C4_ScoresNormalized ==
    \A i \in DOMAIN total_score_df :
        LET row == total_score_df[i]
            ms == row.melt_temperature_score
            gs == row.gc_percentage_score
            ts == row.total_score
            group == GroupOf(total_score_df, row.primer_name)
        IN /\ ms.d > 0 /\ 0 <= ms.n /\ ms.n <= ms.d
           /\ gs.d > 0 /\ 0 <= gs.n /\ gs.n <= gs.d
           /\ (\A o \in group : row.melt_temp_target_distance
                                    >= total_score_df[o].melt_temp_target_distance)
                  => ms.n = 0
           /\ (\A o \in group : row.gc_percentage_target_distance
                                    >= total_score_df[o].gc_percentage_target_distance)
                  => gs.n = 0
           /\ (\A o \in group : row.melt_temp_target_distance
                                    <= total_score_df[o].melt_temp_target_distance)
                  => \A o \in group :
                        /\ total_score_df[o].melt_temperature_score.d = ms.d
                        /\ total_score_df[o].melt_temperature_score.n <= ms.n
           /\ (\A o \in group : row.gc_percentage_target_distance
                                    <= total_score_df[o].gc_percentage_target_distance)
                  => \A o \in group :
                        /\ total_score_df[o].gc_percentage_score.d = gs.d
                        /\ total_score_df[o].gc_percentage_score.n <= gs.n
           /\ ts.d = ms.d * gs.d
           /\ ts.n = row.gc_clamp * ts.d + 2 * ms.n * gs.d + gs.n * ms.d
           /\ 0 <= ts.n /\ ts.n <= 4 * ts.d

\* a group whose candidates differ in both distances has been normalized
C4_Witness ==
    /\ pc = "normalized"
    /\ \E i, j \in DOMAIN total_score_df :
          /\ total_score_df[i].primer_name = total_score_df[j].primer_name
          /\ total_score_df[i].melt_temp_target_distance
                 < total_score_df[j].melt_temp_target_distance
          /\ total_score_df[i].gc_percentage_target_distance
                 > total_score_df[j].gc_percentage_target_distance
          /\ total_score_df[i].melt_temperature_score.n > 0
          /\ total_score_df[j].gc_percentage_score.n > 0

\* C5: with add_overhangs the optimal table has the rows of the run without
\* overhangs, in the same order, each forward sequence prefixed by
\* upstream_overhang and each reverse sequence by downstream_overhang, every
\* other field unchanged, and the all-options table is unchanged.
C5_OverhangsOnlyPrefix ==
    /\ [](outcome = "returned" /\ ~options.add
            => optimal_primer_results_df = rank_one_df)
    /\ [][(pc = "ranked" /\ options.add) =>
            /\ all_options_ranked_df' = all_options_ranked_df
            /\ rank_one_df' = rank_one_df
            /\ Len(optimal_primer_results_df') = Len(rank_one_df)
            /\ \A i \in DOMAIN rank_one_df :
                  LET before == rank_one_df[i]
                      after == optimal_primer_results_df'[i]
                  IN /\ after.primer_sequence =
                            (IF before.direction = "forward" THEN options.upstream
                             ELSE options.downstream) \o before.primer_sequence
                     /\ [after EXCEPT !.primer_sequence = before.primer_sequence] = before
          ]_vars

\* overhangs have been added to an optimal table of several groups
C5_Witness ==
    /\ outcome = "returned"
    /\ options.add
    /\ options.upstream # <<>>
    /\ \E i, j \in DOMAIN optimal_primer_results_df :
          /\ i < j
          /\ optimal_primer_results_df[i].direction = "reverse"
          /\ optimal_primer_results_df[j].direction = "forward"
          /\ SubSeq(optimal_primer_results_df[j].primer_sequence, 1, 3) = options.upstream

\* C6: a table with a column name outside {amplicon name, sequence} is rejected
\* by process_csv with a false validity flag and a message, and no candidate
\* generation happens for it.
C6_UnexpectedColumnRejected ==
    (/\ entry = "process_csv"
     /\ \E i \in DOMAIN file_df.columns : file_df.columns[i] \notin {ColName, ColSequence})
    => /\ pc \in {"process_csv", "done"}
       /\ input_df = file_df
       /\ primer_options_df = <<>> /\ raw_score_df = <<>> /\ total_score_df = <<>>
       /\ all_options_ranked_df = <<>> /\ optimal_primer_results_df = <<>>
       /\ error = "none"
       /\ pc = "done" =>
            /\ outcome = "invalid"
            /\ error_message_str # <<>>
            /\ error_message_str.detected = file_df.columns

\* a table with the column seq has been rejected
C6_Witness ==
    /\ entry = "process_csv"
    /\ outcome = "invalid"
    /\ file_df.columns[2] = <<"s", "e", "q">>

\* C7: headers that differ from amplicon name and sequence only in letter case
\* are accepted by process_csv.
C7_HeadersCaseInsensitive ==
    (/\ entry = "process_csv"
     /\ Len(file_df.columns) = 2
     /\ StrLower(file_df.columns[1]) = ColName
     /\ StrLower(file_df.columns[2]) = ColSequence)
    => outcome # "invalid"

\* C8: a cleaned sequence with a character outside {A,C,G,T}, at any position,
\* makes generate_primers fail: it never returns result tables.
C8_InvalidCharacterFails ==
    (/\ Cleaned
     /\ \E r \in DOMAIN input_df.data : ~IsDna(CleanSeqOf(r)))
    => outcome # "returned"

ZeroMaximum(df, name) ==
    \/ \A i \in GroupOf(df, name) : df[i].melt_temp_target_distance = 0
    \/ \A i \in GroupOf(df, name) : df[i].gc_percentage_target_distance = 0

\* C9: when the maximum melt or gc target distance of a group is zero,
\* generate_primers fails before any normalized score is computed and returns
\* no tables; no table ever holds a NaN or infinite score.
C9_ZeroDivisorFails ==
    /\ (\E g \in DOMAIN raw_score_df : ZeroMaximum(raw_score_df, raw_score_df[g].primer_name))
       => /\ total_score_df = <<>> /\ all_options_ranked_df = <<>>
          /\ rank_one_df = <<>> /\ optimal_primer_results_df = <<>>
          /\ outcome # "returned"
          /\ pc = "done" => outcome = "raised" /\ error = "AssertionError"
    /\ \A df \in {total_score_df, all_options_ranked_df, optimal_primer_results_df} :
          \A i \in DOMAIN df :
              /\ df[i].melt_temperature_score.d # 0
              /\ df[i].gc_percentage_score.d # 0
              /\ df[i].total_score.d # 0

\* a submission with a group of zero maximum distance has failed
C9_Witness ==
    /\ pc = "done"
    /\ error = "AssertionError"
    /\ \E g \in DOMAIN raw_score_df : ZeroMaximum(raw_score_df, raw_score_df[g].primer_name)

\* the position of the first input row with the given amplicon name
InputPosition(name) ==
    CHOOSE r \in DOMAIN input_df.data :
        /\ Cell(input_df, r, ColName) = name
        /\ \A q \in 1..(r - 1) : Cell(input_df, q, ColName) # name

\* C10 as stated: the optimal rows follow the order of the amplicons in the
\* input table.
C10_InputOrder ==
    outcome = "returned" =>
        \A i, j \in DOMAIN optimal_primer_results_df :
            i < j => InputPosition(optimal_primer_results_df[i].amplicon_name)
                         <= InputPosition(optimal_primer_results_df[j].amplicon_name)

\* C10 as amended: the optimal rows are in ascending order of primer_name,
\* whatever the order of the amplicons in the input table, and the order with
\* overhangs is the order without them.
C10_PrimerNameOrder ==
    outcome = "returned" =>
        /\ \A i, j \in DOMAIN optimal_primer_results_df :
              i < j => ~StrLess(optimal_primer_results_df[j].primer_name,
                                optimal_primer_results_df[i].primer_name)
        /\ Len(optimal_primer_results_df) = Len(rank_one_df)
        /\ \A i \in DOMAIN rank_one_df :
              /\ optimal_primer_results_df[i].primer_name = rank_one_df[i].primer_name
              /\ optimal_primer_results_df[i].option_group_index
                     = rank_one_df[i].option_group_index

\* a table whose amplicons are not in name order has been processed with overhangs
C10_Witness ==
    /\ outcome = "returned"
    /\ options.add
    /\ Len(input_df.data) >= 2
    /\ StrLess(Cell(input_df, 2, ColName), Cell(input_df, 1, ColName))
    /\ optimal_primer_results_df[1].amplicon_name = Cell(input_df, 2, ColName)

\* C11: a POST to home with a file whose extension is not csv, or whose table
\* process_csv reports as invalid, ends with the error page and its message,
\* without a call of load_database, a written archive or a stored result.
C11_InvalidUploadShowsErrorPage ==
    (/\ entry = "home"
     /\ request.has_file
     /\ response.kind # "none"
     /\ \/ /\ Len(StrSplit(request.filename, ".")) = 2
           /\ StrSplit(request.filename, ".")[2]
                  \notin {<<"c", "s", "v">>, <<"C", "S", "V">>}
        \/ outcome = "invalid")
    => /\ response.kind = "render"
       /\ response.template = "error.html"
       /\ "message" \in DOMAIN response
       /\ ~load_database_called
       /\ ~zip_file_written
       /\ session = {}

\* C12: ranking neither adds nor removes rows: with unique amplicon names,
\* ties included, the all-options table holds each generated candidate exactly
\* once, 8 rows per primer_name group, each with one rank, ties in row order.
C12_RankingKeepsRows ==
    (all_options_ranked_df # <<>> /\ UniqueNames) =>
        /\ Len(all_options_ranked_df) = Len(primer_options_df)
        /\ \A c \in DOMAIN primer_options_df :
              Cardinality({i \in DOMAIN all_options_ranked_df :
                  /\ all_options_ranked_df[i].primer_name
                         = primer_options_df[c].primer_name
                  /\ all_options_ranked_df[i].option_group_index
                         = primer_options_df[c].option_group_index}) = 1
        /\ \A i \in DOMAIN all_options_ranked_df :
              /\ Cardinality(GroupOf(all_options_ranked_df,
                                     all_options_ranked_df[i].primer_name)) = 8
              /\ all_options_ranked_df[i].option_group_rank \in 1..8
        /\ \A i, j \in DOMAIN all_options_ranked_df :
              (/\ all_options_ranked_df[i].primer_name = all_options_ranked_df[j].primer_name
               /\ all_options_ranked_df[i].total_score = all_options_ranked_df[j].total_score
               /\ all_options_ranked_df[i].option_group_index
                      < all_options_ranked_df[j].option_group_index)
              => all_options_ranked_df[i].option_group_rank
                     < all_options_ranked_df[j].option_group_rank

====
